---- MODULE Spec2Model ----
(***************************************************************************)
(* Model of the signal-conditioning core of shy-light: the frame merge     *)
(* (main.build_detection_result), the debounce / idle state machine        *)
(* (state.manager.StateManager) and the frame loop of main.main that feeds *)
(* it and forwards to the OSC sender.                                      *)
(*                                                                         *)
(* Time is counted in ticks of time.monotonic().  One call of update is    *)
(* atomic with respect to ticks: the reads of time.monotonic() at          *)
(* manager.py:49 and manager.py:53 fall in the same tick.                  *)
(***************************************************************************)
EXTENDS Integers, Sequences, FiniteSets, TLC

\* ---------------------------------------------------------------- bounds
MaxDebounce == 2
MaxTimeout == 2
MaxClock == 3
WorkedDebounce == 3

\* Default of debounce_frames (StateManager.__init__).
DefaultDebounce == 5

\* ------------------------------------------------------- state/schema.py
NONE == "none"

Proximity == {"close", "medium", "far", NONE}

Expression == {"smile", "angry", "sad", "neutral", NONE}

Gesture == {"peekaboo", NONE}

\* Fault: a DetectionResult starts with expression NEUTRAL.
DetectionResultDefaultsNeutral ==
    [proximity |-> NONE, expression |-> "neutral", gesture |-> NONE,
     proximity_value |-> 0]

\* DetectionResult.__init__ : the attributes every instance has, with
\* their defaults.
DetectionResultDefaults ==
    [proximity |-> NONE, expression |-> NONE, gesture |-> NONE,
     proximity_value |-> 0]

\* ---------------------------------------------------------------- main.py
\* Continuous values are in thousandths: 1000 is 1.0, -1000 the sentinel -1.0.
\* The debug-only bounding boxes are "None" or "box".
DiscreteFields == {"proximity", "expression", "gesture"}

ContinuousFields ==
    {"proximity_value", "face_x", "face_y",
     "hand_right_x", "hand_right_y", "hand_left_x", "hand_left_y"}

BboxFields == {"face_bbox", "hand_right_bbox", "hand_left_bbox"}

\* The keys build_detection_result copies (main.py:36-49).
ResultFields == DiscreteFields \cup ContinuousFields \cup BboxFields

EmptyDict == [k \in {} |-> NONE]

\* Fault: the first map that reports a key wins.
DictUpdateKeepFirst(a, b) ==
    [k \in (DOMAIN a) \cup (DOMAIN b) |-> IF k \in DOMAIN a THEN a[k] ELSE b[k]]

\* dict.update : merged.update(output)
DictUpdate(a, b) ==
    [k \in (DOMAIN a) \cup (DOMAIN b) |-> IF k \in DOMAIN b THEN b[k] ELSE a[k]]

\* The for loop of build_detection_result over raw_outputs[i..].
RECURSIVE MergeOutputs(_, _, _)
MergeOutputs(merged, outputs, i) ==
    IF i > Len(outputs) THEN merged
    ELSE MergeOutputs(DictUpdate(merged, outputs[i]), outputs, i + 1)

\* build_detection_result(raw_outputs): a DetectionResult() whose attributes
\* are set from the merged keys; an attribute that is neither set by
\* DetectionResult.__init__ nor merged does not exist on the result.
build_detection_result(outputs) ==
    LET merged == MergeOutputs(EmptyDict, outputs, 1)
    IN [k \in (DOMAIN DetectionResultDefaults) \cup (ResultFields \cap DOMAIN merged) |->
          IF k \in DOMAIN merged THEN merged[k] ELSE DetectionResultDefaults[k]]

\* ----------------------------------------------------------- detectors/*.py
\* Defaults of the detector settings (main.py:122-130) and of the camera frame.
FrameW == 1280
FrameH == 720
CloseThreshold == 150
FarThreshold == 40
MinConfidence == 40
AnalyzeEveryN == 3
FaceLostFrames == 3

\* round(num / den, 3) in thousandths, for den > 0.
Round3(num, den) == (2000 * num + den) \div (2 * den)

\* round(num / den) to the nearest integer, for den > 0.
RoundDiv(num, den) == (2 * num + den) \div (2 * den)

BoxArea(bb) == bb.width * bb.height

\* ProximityDetector.detect : the for loop finding the largest face area.
RECURSIVE LargestArea(_, _, _)
LargestArea(faces, i, largest_area) ==
    IF i > Len(faces) THEN largest_area
    ELSE LargestArea(faces, i + 1,
                     IF BoxArea(faces[i]) > largest_area THEN BoxArea(faces[i])
                     ELSE largest_area)

\* ProximityDetector.detect
ProximityDetect(faces) ==
    IF Len(faces) = 0 THEN [proximity |-> NONE, proximity_value |-> 0]
    ELSE LET largest_area == LargestArea(faces, 1, 0)
             frame_area == FrameH * FrameW
             proximity == IF largest_area * 1000 >= CloseThreshold * frame_area THEN "close"
                          ELSE IF largest_area * 1000 <= FarThreshold * frame_area THEN "far"
                          ELSE "medium"
             proximity_value ==
                 IF largest_area * 1000 >= CloseThreshold * frame_area THEN 1000
                 ELSE RoundDiv(largest_area * 1000, (CloseThreshold * frame_area) \div 1000)
         IN [proximity |-> proximity, proximity_value |-> proximity_value]

\* _EMOTION_MAP.get(dominant_emotion, Expression.NEUTRAL)
EmotionMap(dominant_emotion) ==
    CASE dominant_emotion = "happy" -> "smile"
      [] dominant_emotion = "angry" -> "angry"
      [] dominant_emotion = "sad" -> "sad"
      [] OTHER -> "neutral"

\* ExpressionDetector.detect with _frame_count = count and _last_result = last
\* on entry; deepface is the outcome of DeepFace.analyze on the frame.
\* Gives the returned expression; it is also the new _last_result on an
\* analysed frame.
\* Fault: the frames analysed are the first of every analyze_every_n_frames.
ExpressionAnalysedFirst(count) == count % AnalyzeEveryN = 0

ExpressionAnalysed(count) == (count + 1) % AnalyzeEveryN = 0

ExpressionDetect(deepface, count, last) ==
    IF ~ExpressionAnalysed(count) THEN last
    ELSE IF deepface.kind = "raise" THEN last
    ELSE IF deepface.kind = "empty" THEN NONE
    ELSE IF deepface.confidence < MinConfidence THEN "neutral"
    ELSE EmotionMap(deepface.dominant_emotion)

\* Fault: a detected face does not restart the count.
PeekabooCountNoReset(faces, count) == count + 1

\* PeekabooDetector.detect : the counters after the face test, and the gesture.
PeekabooCount(faces, count) == IF Len(faces) > 0 THEN 0 ELSE count + 1

PeekabooBbox(faces, bbox) == IF Len(faces) > 0 THEN "box" ELSE bbox

PeekabooDetect(faces, bbox, count) ==
    IF PeekabooBbox(faces, bbox) = "None" THEN NONE
    ELSE IF PeekabooCount(faces, count) >= FaceLostFrames THEN "peekaboo"
    ELSE NONE

\* max(result.detections, key=area) : the first face of largest area.
BestFace(faces) ==
    LET i == CHOOSE i \in 1..Len(faces) :
                 /\ \A j \in 1..Len(faces) : BoxArea(faces[j]) <= BoxArea(faces[i])
                 /\ \A j \in 1..(i - 1) : BoxArea(faces[j]) < BoxArea(faces[i])
    IN faces[i]

\* FaceCoordinateDetector.detect
FaceDetect(faces) ==
    IF Len(faces) = 0 THEN [face_x |-> -1000, face_y |-> -1000, face_bbox |-> "None"]
    ELSE LET bb == BestFace(faces)
         IN [face_x |-> Round3(2 * bb.origin_x + bb.width, 2 * FrameW),
             face_y |-> Round3(2 * bb.origin_y + bb.height, 2 * FrameH),
             face_bbox |-> "box"]

\* HandCoordinateDetector.detect : the for loop over the detected hands.
RECURSIVE HandDetect(_, _, _)
HandDetect(hands, i, coords) ==
    IF i > Len(hands) THEN coords
    ELSE LET label == IF hands[i].category_name = "right" THEN "left" ELSE "right"
         IN HandDetect(hands, i + 1,
                IF label = "left"
                THEN [coords EXCEPT !.hand_left_x = hands[i].x, !.hand_left_y = hands[i].y,
                                    !.hand_left_bbox = "box"]
                ELSE [coords EXCEPT !.hand_right_x = hands[i].x, !.hand_right_y = hands[i].y,
                                    !.hand_right_bbox = "box"])

HandsDetect(hands) ==
    HandDetect(hands, 1,
               [hand_right_x |-> -1000, hand_right_y |-> -1000,
                hand_left_x |-> -1000, hand_left_y |-> -1000,
                hand_right_bbox |-> "None", hand_left_bbox |-> "None"])

\* ------------------------------------------------------------------ osc/*.py
OSC_ADDRESSES ==
    [proximity |-> "/person/proximity", expression |-> "/person/expression",
     gesture |-> "/person/gesture", proximity_value |-> "/person/proximity/value",
     face_x |-> "/person/face/x", face_y |-> "/person/face/y",
     hand_right_x |-> "/person/hand/right/x", hand_right_y |-> "/person/hand/right/y",
     hand_left_x |-> "/person/hand/left/x", hand_left_y |-> "/person/hand/left/y"]

\* OSCSender.send_change with USE_STRING_VALUES = True, appending to the
\* messages out handed to the UDP client.
send_change(out, field, value) ==
    IF field \notin DOMAIN OSC_ADDRESSES THEN out
    ELSE Append(out, <<OSC_ADDRESSES[field], value>>)

\* OSCSender.send_all
send_all(out, state) ==
    send_change(send_change(send_change(out, "proximity", state.proximity),
                            "expression", state.expression),
                "gesture", state.gesture)

\* ------------------------------------------------------ state/manager.py
\* Fault: the fields are visited in the opposite order.
FieldOrderReversed == <<"gesture", "expression", "proximity">>

\* Keys of _IDLE_DEFAULTS and of _history, in dict insertion order.
FieldOrder == <<"proximity", "expression", "gesture">>

Fields == {FieldOrder[i] : i \in 1..Len(FieldOrder)}

IDLE_DEFAULTS == [proximity |-> NONE, expression |-> NONE, gesture |-> NONE]

VARIABLES
    debounce_frames,        \* StateManager.debounce_frames
    idle_timeout_seconds,   \* StateManager.idle_timeout_seconds (ticks)
    confirmed,              \* StateManager._confirmed (debounced fields)
    history,                \* StateManager._history : field -> deque
    last_face_seen_at,      \* StateManager._last_face_seen_at
    idle,                   \* StateManager._idle
    clock,                  \* time.monotonic()
    raw,                    \* argument of the latest update call
    changes,                \* return value of the latest update call
    step,                   \* which return of update the latest call took
    prev_confirmed,         \* _confirmed when the latest call began
    was_idle,               \* _idle when the latest call began
    streak,                 \* per field: length of the run of equal raw values ending at the latest call
    run,                    \* per field: same, counted over debounce-step calls since the last idle reset
    none_since,             \* clock of the first call of the current run of NONE-distance calls, -1 if none
    after_reset,            \* an idle reset happened and no call with distance /= NONE since
    active_all,             \* no call so far took the idle-reset return
    log,                    \* raw distance of every call so far, while recorded
    log_cap,                \* number of calls recorded in log
    raw_outputs,            \* main: the list of detector outputs of the frame
    detection,              \* main: the DetectionResult of the frame (attribute -> value)
    pc,                     \* position of main / of the caller of build_detection_result
    frame_count,            \* ExpressionDetector._frame_count
    last_result,            \* ExpressionDetector._last_result
    last_face_bbox,         \* PeekabooDetector._last_face_bbox ("None" or "box")
    frames_without_face,    \* PeekabooDetector._frames_without_face
    sent,                   \* OSC messages sent by the latest step of main
    read_ok,                \* the latest camera.read() delivered a frame
    cam,                    \* main: (success, frame) of the latest camera.read()
    send_all_calls,         \* number of calls of OSCSender.send_all so far
    peekaboo_kwargs,        \* keyword names of the PeekabooDetector(...) call
    window,                 \* per field: raw values of the debounce-step calls since the last idle reset, the latest debounce_frames of them (kept while log is)
    twin,                   \* the manager fields of a second run, fed the same distance and expression at the same times and gesture NONE throughout (kept while log is)
    since_confirm,          \* per field: calls since its latest debounce confirmation, -1 if none (kept while log is)
    failure,                \* the backend that raised in the latest iteration of main, "none" if none
    ever_face,              \* a face has been detected on some frame so far
    absent_run,             \* consecutive frames without a face, ending at the latest frame
    consumer,               \* discrete state of a receiver that applies every message in order
    camera_on,              \* the camera: "off", "on" (started) or "stopped"
    released                \* per detector of the pipeline: number of release() calls

smvars == <<debounce_frames, idle_timeout_seconds, confirmed, history,
            last_face_seen_at, idle, clock, raw, changes, step,
            prev_confirmed, was_idle, streak, run, none_since, after_reset,
            active_all, log, log_cap, since_confirm, window, twin>>

detvars == <<frame_count, last_result, last_face_bbox, frames_without_face>>

\* What an observer of the frame loop keeps.
obsvars == <<failure, ever_face, absent_run, consumer>>

\* The resources main releases on exit.
exitvars == <<camera_on, released>>

loopvars == <<raw_outputs, detection, pc, detvars, sent, read_ok, cam, send_all_calls,
              peekaboo_kwargs, obsvars, exitvars>>

vars == <<smvars, loopvars>>

Min(a, b) == IF a < b THEN a ELSE b

\* Fault: a full deque keeps its entries and drops the new value.
DequeAppendKeepOldest(h, v, maxlen) ==
    IF Len(h) < maxlen THEN Append(h, v) ELSE h

\* collections.deque(maxlen=n).append(v)
DequeAppend(h, v, maxlen) ==
    IF Len(h) < maxlen THEN Append(h, v)
    ELSE IF maxlen = 0 THEN h
    ELSE Append(Tail(h), v)

\* Fault: a majority of the window is enough.
UnanimousMajority(h) ==
    2 * Cardinality({i \in 1..Len(h) : h[i] = h[Len(h)]}) > Len(h)

\* all(v == candidate for v in history), candidate = history[-1]
Unanimous(h) == \A i \in 1..Len(h) : h[i] = h[Len(h)]

\* Fault: a window that is not full yet can confirm.
ConfirmsUnfilled(h, c, n) ==
    /\ Unanimous(h)
    /\ h[Len(h)] # c

\* Fault: the latest value of a full window is confirmed without the all() test.
ConfirmsLatest(h, c, n) ==
    /\ ~(Len(h) < n)
    /\ h[Len(h)] # c

\* The body of the for loop of update for one field, on the appended
\* history h and the confirmed value c: TRUE when the field is confirmed anew.
Confirms(h, c, n) ==
    /\ ~(Len(h) < n)
    /\ Unanimous(h)
    /\ h[Len(h)] # c

\* Concatenation of the per-field entries in dict order.
RECURSIVE ChangedList(_, _)
ChangedList(entry, i) ==
    IF i > Len(FieldOrder) THEN <<>>
    ELSE entry[FieldOrder[i]] \o ChangedList(entry, i + 1)

\* StateManager._reset_to_idle : new _confirmed and the returned list.
\* Fault: the idle reset leaves the confirmed values alone.
ResetConfirmedKept(c) == c

ResetConfirmed(c) == [f \in Fields |-> IF c[f] # IDLE_DEFAULTS[f] THEN IDLE_DEFAULTS[f] ELSE c[f]]

\* Fault: the idle reset returns no changes.
ResetChangedSilent(c) == <<>>

ResetChanged(c) ==
    ChangedList([f \in Fields |->
                   IF c[f] # IDLE_DEFAULTS[f] THEN <<<<f, IDLE_DEFAULTS[f]>>>> ELSE <<>>], 1)

\* Fault: the history deques survive the idle reset.
ResetHistoryKept(h) == h

\* Fault: the newest entry of each window survives the idle reset.
ResetHistoryKeepLatest(h) ==
    [f \in Fields |-> IF h[f] = <<>> THEN <<>> ELSE <<h[f][Len(h[f])]>>]

\* Fault: only the distance window is cleared.
ResetHistoryDistanceOnly(h) == [f \in Fields |-> IF f = "proximity" THEN <<>> ELSE h[f]]

\* manager.py:90-91 : every history deque is cleared.
ResetHistory(h) == [f \in Fields |-> <<>>]

\* Fault: a full window drops its newest entry instead of its oldest.
DebounceHistoryDropNewest(h, r, n) ==
    [f \in Fields |->
        IF Len(h[f]) < n THEN Append(h[f], r[f])
        ELSE Append(SubSeq(h[f], 1, Len(h[f]) - 1), r[f])]

\* Fault: a frame without a gesture is not recorded in the gesture window.
DebounceHistorySkipGesture(h, r, n) ==
    [f \in Fields |->
        IF f = "gesture" /\ r[f] = NONE THEN h[f] ELSE DequeAppend(h[f], r[f], n)]

\* The normal debounce update of update (manager.py:62-78).
DebounceHistory(h, r, n) == [f \in Fields |-> DequeAppend(h[f], r[f], n)]

\* Fault: the latest raw value is written to the confirmed state directly.
DebounceConfirmedRaw(h, c, n) == [f \in Fields |-> h[f][Len(h[f])]]

\* Fault: a field is confirmed only while the gesture window is unanimous too.
DebounceConfirmedTogether(h, c, n) ==
    [f \in Fields |->
        IF Confirms(h[f], c[f], n) /\ Unanimous(h.gesture) THEN h[f][Len(h[f])] ELSE c[f]]

DebounceConfirmed(h, c, n) ==
    [f \in Fields |-> IF Confirms(h[f], c[f], n) THEN h[f][Len(h[f])] ELSE c[f]]

\* Fault: a unanimous full window is reported whether or not it differs
\* from the confirmed value.
DebounceChangedAll(h, c, n) ==
    ChangedList([f \in Fields |->
                   IF ~(Len(h[f]) < n) /\ Unanimous(h[f])
                   THEN <<<<f, h[f][Len(h[f])]>>>> ELSE <<>>], 1)

DebounceChanged(h, c, n) ==
    ChangedList([f \in Fields |->
                   IF Confirms(h[f], c[f], n) THEN <<<<f, h[f][Len(h[f])]>>>> ELSE <<>>], 1)

\* Bookkeeping of the observers (not program state).
Observe(r, kind) ==
    /\ raw' = r
    /\ step' = kind
    /\ prev_confirmed' = confirmed
    /\ was_idle' = idle
    /\ streak' = [f \in Fields |->
                    IF step # "init" /\ raw[f] = r[f]
                    THEN Min(streak[f] + 1, debounce_frames + 1) ELSE 1]
    /\ run' = [f \in Fields |->
                 IF kind = "reset" THEN 0
                 ELSE IF kind = "idle" THEN run[f]
                 ELSE IF run[f] > 0 /\ raw[f] = r[f]
                      THEN Min(run[f] + 1, debounce_frames) ELSE 1]
    /\ none_since' = IF r.proximity # NONE THEN -1
                     ELSE IF none_since = -1 THEN clock ELSE none_since
    /\ after_reset' = IF r.proximity # NONE THEN FALSE
                      ELSE IF kind = "reset" THEN TRUE ELSE after_reset
    /\ active_all' = (active_all /\ kind # "reset")
    /\ log' = IF Len(log) < log_cap THEN Append(log, r.proximity) ELSE log
    /\ UNCHANGED log_cap
    /\ since_confirm' = [f \in Fields |->
                           IF log_cap = 0 THEN since_confirm[f]
                           ELSE IF kind = "debounce" /\ confirmed'[f] # confirmed[f] THEN 0
                           ELSE IF since_confirm[f] = -1 THEN -1
                           ELSE Min(since_confirm[f] + 1, debounce_frames)]
    /\ window' = [f \in Fields |->
                     IF log_cap = 0 THEN window[f]
                     ELSE IF kind = "reset" THEN <<>>
                     ELSE IF kind = "idle" THEN window[f]
                     ELSE LET w == Append(window[f], r[f])
                          IN IF Len(w) > debounce_frames
                             THEN SubSeq(w, Len(w) - debounce_frames + 1, Len(w))
                             ELSE w]

\* manager.py:48 : a face is present in the raw frame.
FaceSeen(r) == r.proximity # NONE

\* Fault: a gesture counts as presence and refreshes the idle timestamp.
SeenAtOnGesture(r, seen_at, now) ==
    IF FaceSeen(r) \/ r.gesture # NONE THEN now ELSE seen_at

\* Fault: the idle timestamp is refreshed by the calls without a face.
SeenAtOnAbsence(r, seen_at, now) == IF FaceSeen(r) THEN seen_at ELSE now

\* manager.py:49-50 : _last_face_seen_at and _idle after the presence check.
SeenAtAfterPresence(r, seen_at, now) == IF FaceSeen(r) THEN now ELSE seen_at

\* Fault: the idle flag is not cleared when a face is present.
IdleAfterPresenceKept(r, is_idle) == is_idle

IdleAfterPresence(r, is_idle) == IF FaceSeen(r) THEN FALSE ELSE is_idle

\* Fault: the timeout has to be exceeded, not just reached.
TimedOutStrictly(is_idle, seen_at, now, timeout) ==
    LET seconds_without_face == now - seen_at
    IN ~is_idle /\ seconds_without_face > timeout

\* Fault: the timeout fires one tick early.
TimedOutEarly(is_idle, seen_at, now, timeout) ==
    LET seconds_without_face == now - seen_at
    IN ~is_idle /\ seconds_without_face >= timeout - 1

\* manager.py:53-54 : the idle timeout test.
TimedOut(is_idle, seen_at, now, timeout) ==
    LET seconds_without_face == now - seen_at
    IN ~is_idle /\ seconds_without_face >= timeout

\* Fault: the early return while idle is missing.
FrozenNever(is_idle) == FALSE

\* manager.py:59 : already idle, nothing is processed.
Frozen(is_idle) == is_idle

\* StateManager.update(r) at the same clock on the manager fields kept in
\* twin: the same three returns, through the same operators.
UpdateTwin(r) ==
    \E seen_at \in {SeenAtAfterPresence(r, twin.last_face_seen_at, clock)} :
    \E idle1 \in {IdleAfterPresence(r, twin.idle)} :
       IF TimedOut(idle1, seen_at, clock, idle_timeout_seconds)
       THEN twin' = [confirmed |-> ResetConfirmed(twin.confirmed),
                     history |-> ResetHistory(twin.history),
                     idle |-> TRUE,
                     last_face_seen_at |-> seen_at,
                     changes |-> ResetChanged(twin.confirmed)]
       ELSE IF Frozen(idle1)
       THEN twin' = [twin EXCEPT !.idle = idle1,
                                 !.last_face_seen_at = seen_at,
                                 !.changes = <<>>]
       ELSE \E h \in {DebounceHistory(twin.history, r, debounce_frames)} :
               twin' = [confirmed |-> DebounceConfirmed(h, twin.confirmed, debounce_frames),
                        history |-> h,
                        idle |-> idle1,
                        last_face_seen_at |-> seen_at,
                        changes |-> DebounceChanged(h, twin.confirmed, debounce_frames)]

\* StateManager.update(raw)
Update(r) ==
    \E seen_at \in {SeenAtAfterPresence(r, last_face_seen_at, clock)} :
    \E idle1 \in {IdleAfterPresence(r, idle)} :
       /\ last_face_seen_at' = seen_at
       /\ IF TimedOut(idle1, seen_at, clock, idle_timeout_seconds)
          THEN /\ idle' = TRUE
               /\ confirmed' = ResetConfirmed(confirmed)
               /\ changes' = ResetChanged(confirmed)
               /\ history' = ResetHistory(history)
               /\ Observe(r, "reset")
          ELSE IF Frozen(idle1)
          THEN /\ idle' = idle1
               /\ changes' = <<>>
               /\ UNCHANGED <<confirmed, history>>
               /\ Observe(r, "idle")
          ELSE \E h \in {DebounceHistory(history, r, debounce_frames)} :
               /\ idle' = idle1
               /\ history' = h
               /\ confirmed' = DebounceConfirmed(h, confirmed, debounce_frames)
               /\ changes' = DebounceChanged(h, confirmed, debounce_frames)
               /\ Observe(r, "debounce")
       /\ IF log_cap = 0 THEN UNCHANGED twin
          ELSE UpdateTwin([r EXCEPT !.gesture = NONE])
       /\ UNCHANGED <<debounce_frames, idle_timeout_seconds, clock>>

\* A call of update from outside the frame loop.
UpdateOnly(r) == Update(r) /\ UNCHANGED loopvars

\* Passage of time between calls.
Tick ==
    /\ clock < MaxClock
    /\ clock' = clock + 1
    /\ UNCHANGED <<debounce_frames, idle_timeout_seconds, confirmed, history,
                   last_face_seen_at, idle, raw, changes, step,
                   prev_confirmed, was_idle, streak, run, none_since,
                   after_reset, active_all, log, log_cap, since_confirm, window, twin>>
    /\ UNCHANGED loopvars

\* StateManager.__init__ at clock 0.
InitManager(n, t, cap) ==
    /\ debounce_frames = n
    /\ idle_timeout_seconds = t
    /\ confirmed = [f \in Fields |-> DetectionResultDefaults[f]]
    /\ history = [f \in Fields |-> <<>>]
    /\ clock = 0
    /\ last_face_seen_at = 0
    /\ idle = FALSE
    /\ raw = [f \in Fields |-> DetectionResultDefaults[f]]
    /\ changes = <<>>
    /\ step = "init"
    /\ prev_confirmed = [f \in Fields |-> DetectionResultDefaults[f]]
    /\ was_idle = FALSE
    /\ streak = [f \in Fields |-> 0]
    /\ run = [f \in Fields |-> 0]
    /\ none_since = -1
    /\ after_reset = FALSE
    /\ active_all = TRUE
    /\ log = <<>>
    /\ log_cap = cap
    /\ since_confirm = [f \in Fields |-> -1]
    /\ window = [f \in Fields |-> <<>>]
    /\ twin = [confirmed |-> [f \in Fields |-> DetectionResultDefaults[f]],
               history |-> [f \in Fields |-> <<>>],
               idle |-> FALSE,
               last_face_seen_at |-> 0,
               changes |-> <<>>]

\* Raw frames fed to update: the debounced fields of a Frame Result.
Frames ==
    [proximity : {"close", NONE},
     expression : {"smile", NONE},
     gesture : {"peekaboo", NONE}]

\* camera.read() has not been called yet.
NoRead == [success |-> FALSE, frame |-> "not read"]

\* PeekabooDetector.__init__ : the parameters besides self.
PeekabooInitParams == {"face_lost_frames", "debug"}

\* main.py:128-133 : the keywords main passes to PeekabooDetector.
PeekabooInitKwargs ==
    {"overlap_threshold", "face_lost_frames", "hand_center_margin", "debug"}

\* A call with keywords binds when the function has a parameter of each
\* name; otherwise it raises TypeError.
CallBinds(kwargs, params) == kwargs \subseteq params

\* The components have been constructed.
Constructed == peekaboo_kwargs = PeekabooInitParams

\* main.py:120-138 : the detectors of the pipeline, in list order.
Detectors ==
    <<"ProximityDetector", "ExpressionDetector", "PeekabooDetector",
      "FaceCoordinateDetector", "HandCoordinateDetector">>

\* The detectors, the camera and the OSC sender right after construction.
InitDetectors ==
    /\ failure = "none"
    /\ ever_face = FALSE
    /\ absent_run = 0
    /\ consumer = [f \in Fields |-> "unknown"]
    /\ camera_on = "off"
    /\ released = [d \in 1..Len(Detectors) |-> 0]
    /\ cam = NoRead
    /\ send_all_calls = 0
    /\ frame_count = 0
    /\ last_result = NONE
    /\ last_face_bbox = "None"
    /\ frames_without_face = 0
    /\ sent = <<>>
    /\ read_ok = FALSE

\* main is not running: only the StateManager is exercised.
NoLoop ==
    /\ Constructed
    /\ raw_outputs = <<>>
    /\ detection = DetectionResultDefaults
    /\ pc = "idle"
    /\ InitDetectors

Init == NoLoop /\ \E n \in 1..MaxDebounce : InitManager(n, MaxTimeout, 0)

UpdateCall == \E r \in Frames : UpdateOnly(r)

Next == UpdateCall \/ Tick

Spec == Init /\ [][Next]_vars

\* The default window of five frames, fed distance readings only.
Frames5 ==
    [proximity : {"close", "medium", NONE}, expression : {NONE}, gesture : {NONE}]

Init5 == NoLoop /\ InitManager(DefaultDebounce, MaxTimeout, 0)

UpdateCall5 == \E r \in Frames5 : UpdateOnly(r)

Next5 == UpdateCall5 \/ Tick

Spec5 == Init5 /\ [][Next5]_vars

\* Every run of 2 * WorkedDebounce calls from a fresh manager, recorded in log.
InitWorked == NoLoop /\ InitManager(WorkedDebounce, MaxTimeout, 2 * WorkedDebounce)

UpdateCallWorked == Len(log) < log_cap /\ \E r \in Frames5 : UpdateOnly(r)

NextWorked == UpdateCallWorked \/ Tick

SpecWorked == InitWorked /\ [][NextWorked]_vars

\* Runs long enough for a confirmation, an idle reset and a second
\* confirmation: 2 * WorkedDebounce + 2 recorded calls, a face near or none.
FramesGap ==
    [proximity : {"close", NONE}, expression : {NONE}, gesture : {NONE}]

InitGap == NoLoop /\ InitManager(WorkedDebounce, MaxTimeout, 2 * WorkedDebounce + 2)

UpdateCallGap == Len(log) < log_cap /\ \E r \in FramesGap : UpdateOnly(r)

NextGap == UpdateCallGap \/ Tick

SpecGap == InitGap /\ [][NextGap]_vars

\* Every run of MaxDebounce + 2 calls on the eight raw frames, for each
\* window size, with the observers of the windows and the second run kept.
InitTwin == NoLoop /\ \E n \in 1..MaxDebounce : InitManager(n, MaxTimeout, MaxDebounce + 2)

UpdateCallTwin == Len(log) < log_cap /\ \E r \in Frames : UpdateOnly(r)

NextTwin == UpdateCallTwin \/ Tick

SpecTwin == InitTwin /\ [][NextTwin]_vars

\* The subject leaves for good: update keeps being called and the clock keeps
\* advancing.  A face is seen only while the bounded clock still has
\* idle_timeout_seconds left to run.
UpdateFace ==
    /\ clock + idle_timeout_seconds <= MaxClock
    /\ \E r \in Frames : FaceSeen(r) /\ UpdateOnly(r)

UpdateAbsent == \E r \in Frames : ~FaceSeen(r) /\ UpdateOnly(r)

NextLive == UpdateFace \/ UpdateAbsent \/ Tick

SpecLive == Init /\ [][NextLive]_vars /\ WF_vars(Tick) /\ WF_vars(UpdateAbsent)

\* ------------------------------------------------------- main.py : main
\* The frame loop of main from the with statement (main.py:155) on, with the
\* components of main.py:113-150 constructed.
MaxFrames == 5

\* Fault: no suppression.
SuppressNothing(d) == d

\* main.py:171-172 : expression is forced to NONE during a peekaboo.
Suppress(d) ==
    IF d.gesture = "peekaboo" THEN [d EXCEPT !.expression = NONE] ELSE d

\* Fault: the left hand is not sent.
SendContinuousButLeftHand(out, d) ==
    send_change(send_change(send_change(send_change(send_change(out,
        "proximity_value", d.proximity_value), "face_x", d.face_x), "face_y", d.face_y),
        "hand_right_x", d.hand_right_x), "hand_right_y", d.hand_right_y)

\* main.py:178-184 : the continuous values of the frame are sent.
SendContinuous(out, d) ==
    send_change(send_change(send_change(send_change(send_change(send_change(send_change(out,
        "proximity_value", d.proximity_value), "face_x", d.face_x), "face_y", d.face_y),
        "hand_right_x", d.hand_right_x), "hand_right_y", d.hand_right_y),
        "hand_left_x", d.hand_left_x), "hand_left_y", d.hand_left_y)

\* main.py:188-189 : one send_change per returned change.
RECURSIVE SendChanges(_, _, _)
SendChanges(out, chg, i) ==
    IF i > Len(chg) THEN out
    ELSE SendChanges(send_change(out, chg[i][1], chg[i][2]), chg, i + 1)

\* The debounced attributes of a DetectionResult, as update reads them.
Debounced(d) == [f \in Fields |-> d[f]]

\* What the perception backends can find in a captured frame.
SceneFaces ==
    {<<>>,
     <<[origin_x |-> 440, origin_y |-> 160, width |-> 400, height |-> 400]>>,
     <<[origin_x |-> 1230, origin_y |-> 300, width |-> 150, height |-> 150]>>}

SceneDeepface ==
    {[kind |-> "raise", dominant_emotion |-> "neutral", confidence |-> 0],
     [kind |-> "empty", dominant_emotion |-> "neutral", confidence |-> 0],
     [kind |-> "ok", dominant_emotion |-> "happy", confidence |-> 90],
     [kind |-> "ok", dominant_emotion |-> "happy", confidence |-> 30]}

SceneHands ==
    {<<>>, <<[category_name |-> "left", x |-> 250, y |-> 750]>>}

\* DeepFace.analyze is called on analysed frames only.
NotCalled == [kind |-> "not called", dominant_emotion |-> "neutral", confidence |-> 0]

Scenes ==
    [faces : SceneFaces,
     deepface : IF ExpressionAnalysed(frame_count) THEN SceneDeepface ELSE {NotCalled},
     hands : SceneHands]

\* The receiver of the OSC messages: a discrete address sets the field of
\* that address to the value of the message.
RECURSIVE Receive(_, _, _)
Receive(state, msgs, i) ==
    IF i > Len(msgs) THEN state
    ELSE Receive([f \in Fields |->
                     IF msgs[i][1] = OSC_ADDRESSES[f] THEN msgs[i][2] ELSE state[f]],
                 msgs, i + 1)

\* main.py:155-157 : the camera is started and the initial state is sent.
Start ==
    /\ pc = "start"
    /\ pc' = "loop"
    /\ sent' = send_all(<<>>, confirmed)
    /\ send_all_calls' = send_all_calls + 1
    /\ camera_on' = "on"
    /\ consumer' = Receive(consumer, sent', 1)
    /\ UNCHANGED <<smvars, raw_outputs, detection, detvars, read_ok, cam, peekaboo_kwargs>>
    /\ UNCHANGED <<failure, ever_face, absent_run, released>>

\* What camera.read() can return: cv2 gives (False, None) on failure, the
\* RealSense source (False, blank image); both give (True, image) otherwise.
CameraReads ==
    {[success |-> FALSE, frame |-> "None"],
     [success |-> FALSE, frame |-> "image"],
     [success |-> TRUE, frame |-> "image"]}

\* Fault: only a missing frame counts as a failed read.
ReadFailedOnlyNone(success, frame) == frame = "None"

\* main.py:161 : if not success or frame is None
ReadFailed(success, frame) == ~success \/ frame = "None"

\* main.py:160-163 : camera.read() fails, the iteration is skipped.
FrameSkipped ==
    /\ pc = "loop"
    /\ \E c \in CameraReads : ReadFailed(c.success, c.frame) /\ cam' = c
    /\ read_ok' = FALSE
    /\ sent' = <<>>
    /\ failure' = "none"
    /\ UNCHANGED <<smvars, raw_outputs, detection, pc, detvars, send_all_calls,
                   peekaboo_kwargs, ever_face, absent_run, consumer, exitvars>>

\* main.py:160-189 : one iteration of the loop on a captured frame.
Frame(scene) ==
    \E outputs \in {<<ProximityDetect(scene.faces),
                       [expression |-> ExpressionDetect(scene.deepface, frame_count, last_result)],
                       [gesture |-> PeekabooDetect(scene.faces, last_face_bbox, frames_without_face)],
                       FaceDetect(scene.faces),
                       HandsDetect(scene.hands)>>} :
    \E d \in {Suppress(build_detection_result(outputs))} :
    \E r \in {Debounced(d)} :
       /\ pc = "loop"
       /\ frame_count < MaxFrames
       /\ \E c \in CameraReads : ~ReadFailed(c.success, c.frame) /\ cam' = c
       /\ read_ok' = TRUE
       /\ raw_outputs' = outputs
       /\ detection' = d
       /\ frame_count' = frame_count + 1
       /\ last_result' = outputs[2].expression
       /\ last_face_bbox' = PeekabooBbox(scene.faces, last_face_bbox)
       /\ frames_without_face' = PeekabooCount(scene.faces, frames_without_face)
       /\ Update(r)
       /\ sent' = SendChanges(SendContinuous(<<>>, d), changes', 1)
       /\ failure' = IF scene.deepface.kind = "raise" THEN "deepface" ELSE "none"
       /\ ever_face' = (ever_face \/ Len(scene.faces) > 0)
       /\ absent_run' = IF Len(scene.faces) > 0 THEN 0
                        ELSE Min(absent_run + 1, FaceLostFrames)
       /\ consumer' = Receive(consumer, sent', 1)
       /\ UNCHANGED <<pc, send_all_calls, peekaboo_kwargs, exitvars>>

FrameCaptured == \E scene \in Scenes : Frame(scene)

InitLoop ==
    /\ InitManager(MaxDebounce, MaxTimeout, 0)
    /\ InitDetectors
    /\ Constructed
    /\ raw_outputs = <<>>
    /\ detection = DetectionResultDefaults
    /\ pc = "start"

NextLoop == Start \/ FrameSkipped \/ FrameCaptured \/ Tick

SpecLoop == InitLoop /\ [][NextLoop]_vars

\* The frame loop with its exits.  The with statement stops the camera
\* (CameraSource.__exit__) and the finally clause releases the detectors.
\* Fault: only the detectors that override release() are released.
ReleaseOverriding(rel) ==
    [d \in DOMAIN rel |-> IF Detectors[d] = "ExpressionDetector" THEN rel[d] ELSE rel[d] + 1]

\* main.py:203-204 : for d in detectors: d.release()
ReleaseAll(rel) == [d \in DOMAIN rel |-> rel[d] + 1]

\* Leaving the with block and running the finally clause.
Cleanup ==
    /\ camera_on' = "stopped"
    /\ released' = ReleaseAll(released)

\* main.py:192-197 : Q is pressed in the preview of a processed frame.
Quit ==
    /\ pc = "loop" /\ read_ok
    /\ pc' = "quit"
    /\ failure' = "none"
    /\ Cleanup
    /\ UNCHANGED <<smvars, raw_outputs, detection, detvars, sent, read_ok, cam,
                   send_all_calls, peekaboo_kwargs, ever_face, absent_run, consumer>>

\* main.py:199-200 : KeyboardInterrupt arrives between two iterations.
Interrupt ==
    /\ pc = "loop"
    /\ pc' = "interrupted"
    /\ failure' = "none"
    /\ Cleanup
    /\ UNCHANGED <<smvars, raw_outputs, detection, detvars, sent, read_ok, cam,
                   send_all_calls, peekaboo_kwargs, ever_face, absent_run, consumer>>

\* main.py:166 : the MediaPipe call of the first detector of the list
\* (proximity.py:55, outside any try) raises on a captured frame.  No
\* detector has changed state yet; the exception leaves the list
\* comprehension and the loop (only KeyboardInterrupt is caught).
FrameFailed ==
    /\ pc = "loop"
    /\ frame_count < MaxFrames
    /\ \E c \in CameraReads : ~ReadFailed(c.success, c.frame) /\ cam' = c
    /\ read_ok' = TRUE
    /\ sent' = <<>>
    /\ failure' = "mediapipe"
    /\ pc' = "failed"
    /\ Cleanup
    /\ UNCHANGED <<smvars, raw_outputs, detection, detvars, send_all_calls,
                   peekaboo_kwargs, ever_face, absent_run, consumer>>

\* The captured frames of these runs show no hands.
FrameNoHands == \E scene \in {sc \in Scenes : sc.hands = <<>>} : Frame(scene)

NextRun == Start \/ FrameSkipped \/ FrameNoHands \/ FrameFailed \/ Quit \/ Interrupt \/ Tick

SpecRun == InitLoop /\ [][NextRun]_vars

\* The frame loop with a window of one frame, so that a peekaboo is
\* confirmed on its first frame and can still be confirmed when the idle
\* timeout is reached.
InitPeek ==
    /\ InitManager(1, MaxTimeout, 0)
    /\ InitDetectors
    /\ Constructed
    /\ raw_outputs = <<>>
    /\ detection = DetectionResultDefaults
    /\ pc = "start"

NextPeek == Start \/ FrameSkipped \/ FrameNoHands \/ Tick

SpecPeek == InitPeek /\ [][NextPeek]_vars

\* main from the construction of the components (main.py:120) on.  The
\* keywords of the PeekabooDetector call are drawn from the ones main.py
\* passes and the ones the constructor takes.
KwargSets == {PeekabooInitKwargs, PeekabooInitParams}

\* main.py:120-150 : the components are built; a call that does not bind
\* raises TypeError, which leaves main (the try starts at main.py:154).
Build ==
    /\ pc = "build"
    /\ pc' = IF CallBinds(peekaboo_kwargs, PeekabooInitParams) THEN "start" ELSE "raised"
    /\ UNCHANGED <<smvars, raw_outputs, detection, detvars, sent, read_ok, cam,
                   send_all_calls, peekaboo_kwargs, obsvars, exitvars>>

InitMain ==
    /\ InitManager(MaxDebounce, MaxTimeout, 0)
    /\ InitDetectors
    /\ peekaboo_kwargs \in KwargSets
    /\ raw_outputs = <<>>
    /\ detection = DetectionResultDefaults
    /\ pc = "build"

NextMain == Build \/ Start \/ FrameSkipped \/ FrameCaptured \/ Tick

SpecMain == InitMain /\ [][NextMain]_vars

\* build_detection_result on its own, applied to a list of partial maps.
MaxMaps == 2

PartialMaps ==
    {EmptyDict}
    \cup [proximity : {"close", NONE}, proximity_value : {0, 600}]
    \cup [expression : {"smile", "sad"}]
    \cup [gesture : {"peekaboo", NONE}]
    \cup [expression : {"smile", NONE}, gesture : {"peekaboo", NONE}]
    \cup [face_x : {-1000, 500}, face_y : {-1000, 400}, face_bbox : {"None", "box"}]
    \cup [hand_right_x : {-1000, 250}, hand_right_y : {-1000, 750}]
    \cup [hand_left_x : {-1000, 300}, hand_left_y : {-1000, 700}]
    \cup [proximity : {"far"}, face_x : {0, 1000}]

OutputLists == UNION {[1..n -> PartialMaps] : n \in 0..MaxMaps}

InitMerge ==
    /\ InitManager(MaxDebounce, MaxTimeout, 0)
    /\ raw_outputs \in OutputLists
    /\ detection = DetectionResultDefaults
    /\ pc = "merge"
    /\ InitDetectors
    /\ Constructed

MergeCall ==
    /\ pc = "merge"
    /\ detection' = build_detection_result(raw_outputs)
    /\ pc' = "merged"
    /\ UNCHANGED <<smvars, raw_outputs, detvars, sent, read_ok, cam, send_all_calls,
                   peekaboo_kwargs, obsvars, exitvars>>

NextMerge == MergeCall

SpecMerge == InitMerge /\ [][NextMerge]_vars

\* ------------------------------------------------------------------ claims
Changed(f) == confirmed[f] # prev_confirmed[f]

AllNone == [f \in Fields |-> NONE]

\* The list an idle reset has to return for the confirmed state c.
NeededToNone(c) ==
    (IF c.proximity # NONE THEN <<<<"proximity", NONE>>>> ELSE <<>>)
    \o (IF c.expression # NONE THEN <<<<"expression", NONE>>>> ELSE <<>>)
    \o (IF c.gesture # NONE THEN <<<<"gesture", NONE>>>> ELSE <<>>)

\* C1 as stated: a field changes to V on a call iff the raw values of the
\* last debounce_frames calls are all V and that was not so one call earlier.
C1_AsStated ==
    step # "init" =>
        \A f \in Fields :
            (Changed(f) /\ confirmed[f] = raw[f]) <=> (streak[f] = debounce_frames)

\* C1 amended: on a call that reaches the debounce step a field changes, and
\* then to the raw value V of the call, iff the last debounce_frames calls that
\* reached the debounce step since the last idle reset all had raw value V and
\* the confirmed value was not V when the call began; an idle-reset call
\* leaves every field NONE and a call made while idle changes nothing.
C1_Unanimous ==
    /\ step = "debounce" =>
          \A f \in Fields :
              /\ Changed(f) <=> (run[f] >= debounce_frames /\ raw[f] # prev_confirmed[f])
              /\ Changed(f) => confirmed[f] = raw[f]
    /\ step = "reset" => confirmed = AllNone
    /\ step = "idle" => confirmed = prev_confirmed

C1_Witness ==
    /\ step = "debounce"
    /\ debounce_frames = MaxDebounce
    /\ was_idle = FALSE /\ active_all = FALSE
    /\ Changed("expression") /\ confirmed.expression = "smile"

\* C2: with debounce_frames = 5 and no idle reset so far, a field changes
\* only on the call that supplies the fifth consecutive equal raw value, to
\* that value, and from that call on the field holds that value.
C2_FiveConsecutive ==
    (debounce_frames = DefaultDebounce /\ active_all /\ step # "init") =>
        \A f \in Fields :
            /\ Changed(f) => (streak[f] = DefaultDebounce /\ confirmed[f] = raw[f])
            /\ streak[f] >= DefaultDebounce => confirmed[f] = raw[f]

C2_Witness ==
    /\ debounce_frames = DefaultDebounce /\ active_all
    /\ prev_confirmed.proximity = "close"
    /\ confirmed.proximity = "medium"
    /\ streak.proximity = DefaultDebounce

\* C3: from a fresh manager with debounce_frames = n, the raw distances
\* CLOSE (n times) then MEDIUM (n times) give no distance change on calls
\* 1..n-1, exactly (distance, CLOSE) on call n, none on calls n+1..2n-1 and
\* exactly (distance, MEDIUM) on call 2n (n = 3 in the worked example).
WorkedSequence ==
    [i \in 1..(2 * WorkedDebounce) |-> IF i <= WorkedDebounce THEN "close" ELSE "medium"]

DistanceChanges == SelectSeq(changes, LAMBDA e : e[1] = "proximity")

C3_Worked ==
    \A k \in 1..(2 * WorkedDebounce) :
        log = SubSeq(WorkedSequence, 1, k) =>
            DistanceChanges =
                IF k = WorkedDebounce THEN <<<<"proximity", "close">>>>
                ELSE IF k = 2 * WorkedDebounce THEN <<<<"proximity", "medium">>>>
                ELSE <<>>

C3_Witness ==
    /\ log = WorkedSequence
    /\ changes = <<<<"proximity", "medium">>>>
    /\ idle = FALSE

\* C4: a call with raw distance NONE, made idle_timeout_seconds or more
\* after the first call of the unbroken run of NONE-distance calls it
\* belongs to, returns exactly (field, NONE) for the fields whose confirmed
\* value was not NONE, and leaves all three history windows empty.
C4_IdleTransition ==
    [][(/\ Update(raw')
        /\ raw'.proximity = NONE
        /\ none_since # -1
        /\ clock - none_since >= idle_timeout_seconds)
       => (/\ changes' = NeededToNone(confirmed)
           /\ \A f \in Fields : history'[f] = <<>>)]_vars

C4_Witness ==
    /\ step = "reset"
    /\ raw.proximity = NONE
    /\ last_face_seen_at = none_since
    /\ clock = none_since + idle_timeout_seconds
    /\ prev_confirmed = [proximity |-> NONE, expression |-> "smile", gesture |-> NONE]
    /\ changes = <<<<"expression", NONE>>>>
    /\ \A f \in Fields : history[f] = <<>>

\* C5: after an idle reset, while no call with distance /= NONE has been
\* made, every call with raw distance NONE returns the empty list.
C5_PostIdle ==
    [][(Update(raw') /\ after_reset /\ raw'.proximity = NONE) => changes' = <<>>]_vars

C5_Witness ==
    /\ after_reset
    /\ step = "idle"
    /\ raw = [proximity |-> NONE, expression |-> "smile", gesture |-> "peekaboo"]
    /\ changes = <<>>

\* C6: a call with raw distance /= NONE leaves the idle flag clear and the
\* idle timestamp equal to the time of the call, idle or not beforehand.
C6_IdleExit ==
    [][(Update(raw') /\ raw'.proximity # NONE)
       => (idle' = FALSE /\ last_face_seen_at' = clock)]_vars

C6_Witness ==
    /\ step = "debounce"
    /\ was_idle /\ idle = FALSE
    /\ raw.proximity # NONE
    /\ last_face_seen_at = clock

\* C7: every frame result handed to update with gesture PEEKABOO has
\* expression NONE, whatever the expression backend reported, and no
\* position of the history windows pairs PEEKABOO with another expression.
C7_Suppression ==
    /\ (step # "init" /\ raw.gesture = "peekaboo") => raw.expression = NONE
    /\ \A i \in (DOMAIN history.gesture) \cap (DOMAIN history.expression) :
          history.gesture[i] = "peekaboo" => history.expression[i] = NONE

C7_Witness ==
    /\ pc = "loop" /\ read_ok
    /\ step = "debounce"
    /\ raw_outputs[2].expression = "smile"
    /\ raw_outputs[3].gesture = "peekaboo"
    /\ raw.gesture = "peekaboo" /\ raw.expression = NONE
    /\ history.gesture[Len(history.gesture)] = "peekaboo"
    /\ history.expression[Len(history.expression)] = NONE

\* Map i is the last map of raw_outputs that reports key k.
LastReporter(k, i) ==
    /\ i \in 1..Len(raw_outputs)
    /\ k \in DOMAIN raw_outputs[i]
    /\ \A j \in (i + 1)..Len(raw_outputs) : k \notin DOMAIN raw_outputs[j]

Reported(k) == \E i \in 1..Len(raw_outputs) : k \in DOMAIN raw_outputs[i]

\* C8: every field reported by at least one map has, in the merged result,
\* the value of the last map that reports it.
C8_LastWriteWins ==
    pc = "merged" =>
        \A k \in ResultFields : \A i \in 1..Len(raw_outputs) :
            LastReporter(k, i) => (k \in DOMAIN detection /\ detection[k] = raw_outputs[i][k])

C8_Witness ==
    /\ pc = "merged"
    /\ Len(raw_outputs) = 2
    /\ DOMAIN raw_outputs[1] = {"expression", "gesture"}
    /\ DOMAIN raw_outputs[2] = {"expression"}
    /\ raw_outputs[1].expression = "smile"
    /\ raw_outputs[2].expression = "sad"
    /\ detection.expression = "sad"
    /\ detection.gesture = raw_outputs[1].gesture
    /\ detection.gesture = "peekaboo"

\* Absence sentinel of a continuous field.
Sentinel(f) == IF f = "proximity_value" THEN 0 ELSE -1000

\* C9: in the merged result every unreported discrete field is NONE and
\* every unreported continuous field exists and holds its sentinel.
C9_Defaults ==
    pc = "merged" =>
        /\ \A f \in DiscreteFields :
              f \in DOMAIN detection /\ (~Reported(f) => detection[f] = NONE)
        /\ \A f \in ContinuousFields :
              f \in DOMAIN detection /\ (~Reported(f) => detection[f] = Sentinel(f))

\* The messages of the latest step of main that went to the address of f.
SentTo(f) == SelectSeq(sent, LAMBDA m : m[1] = OSC_ADDRESSES[f])

\* C10: after an iteration on a captured frame, every continuous field has
\* been sent exactly once, with the value its detector reported for the
\* frame, idle or not and whatever update returned.
C10_ContinuousPassThrough ==
    (pc = "loop" /\ read_ok) =>
        \A f \in ContinuousFields :
            /\ Len(SentTo(f)) = 1
            /\ \E i \in 1..Len(raw_outputs) :
                  f \in DOMAIN raw_outputs[i] /\ SentTo(f)[1][2] = raw_outputs[i][f]

C10_Witness ==
    /\ pc = "loop" /\ read_ok
    /\ idle /\ step = "idle" /\ changes = <<>>
    /\ Len(sent) = Cardinality(ContinuousFields)
    /\ Len(SentTo("hand_right_x")) = 1
    /\ SentTo("hand_right_x")[1][2] = 250
    /\ Len(SentTo("proximity_value")) = 1
    /\ SentTo("proximity_value")[1][2] = 0

\* C11: an iteration whose camera.read() reports failure (success false or
\* no frame) sends nothing and leaves the detectors' state, the detector
\* outputs, the merged result and the state manager (confirmed state,
\* history, idle flag, idle timestamp, latest call and its return) unchanged.
C11_CaptureFailure ==
    [][(/\ pc = "loop" /\ pc' = "loop"
        /\ clock' = clock
        /\ (~cam'.success \/ cam'.frame = "None"))
       => (/\ sent' = <<>>
           /\ UNCHANGED <<detvars, raw_outputs, detection>>
           /\ UNCHANGED <<confirmed, history, idle, last_face_seen_at>>
           /\ UNCHANGED <<raw, changes, step, streak>>)]_vars

C11_Witness ==
    /\ pc = "loop" /\ ~read_ok
    /\ cam = [success |-> FALSE, frame |-> "image"]
    /\ sent = <<>>
    /\ step = "debounce" /\ confirmed.proximity = "close"
    /\ Len(history.proximity) = debounce_frames

\* The entries of the returned list for field f.
EntriesOf(f) == SelectSeq(changes, LAMBDA e : e[1] = f)

\* C12: after every update call the returned list holds, for each debounced
\* field, one entry (field, new confirmed value) if the call changed the
\* field's confirmed value and none if it did not, and nothing else; the
\* iteration of main sends one message per entry, to the field's address and
\* with the entry's value, besides the seven continuous ones.
C12_MinimalChanges ==
    /\ step # "init" =>
          /\ \A f \in Fields :
                EntriesOf(f) = IF Changed(f) THEN <<<<f, confirmed[f]>>>> ELSE <<>>
          /\ Len(changes) = Cardinality({f \in Fields : Changed(f)})
    /\ (pc = "loop" /\ read_ok) =>
          /\ \A f \in Fields :
                SentTo(f) = [i \in 1..Len(EntriesOf(f)) |->
                               <<OSC_ADDRESSES[f], EntriesOf(f)[i][2]>>]
          /\ Len(sent) = Cardinality(ContinuousFields) + Len(changes)

C12_Witness ==
    /\ pc = "loop" /\ read_ok
    /\ step = "debounce"
    /\ changes = <<<<"proximity", "close">>, <<"expression", "smile">>>>
    /\ confirmed.gesture = prev_confirmed.gesture
    /\ Len(sent) = Cardinality(ContinuousFields) + 2
    /\ SentTo("expression") = <<<<"/person/expression", "smile">>>>

\* C13: a confirmed field changes only in the debounce step, to the raw
\* value of the call, which then fills the field's whole window of
\* debounce_frames entries, or in an idle reset, to NONE; a call made while
\* idle changes no field.
C13_OnlyDebounceOrReset ==
    \A f \in Fields :
        Changed(f) =>
            \/ /\ step = "debounce"
               /\ confirmed[f] = raw[f]
               /\ Len(history[f]) = debounce_frames
               /\ \A i \in 1..Len(history[f]) : history[f][i] = raw[f]
            \/ /\ step = "reset"
               /\ confirmed[f] = NONE

C13_Witness ==
    /\ step = "reset"
    /\ debounce_frames = MaxDebounce
    /\ Changed("gesture") /\ confirmed.gesture = NONE
    /\ raw.gesture = "peekaboo"
    /\ streak.gesture >= debounce_frames

\* C14: every history window holds at most debounce_frames entries; a call
\* that reaches the debounce step puts the raw value at the end of each
\* window, after the entries already there in their order, and drops the
\* first (oldest) entry, and only that one, when the window was full.
C14_BoundedWindow ==
    /\ [](\A f \in Fields : Len(history[f]) <= debounce_frames)
    /\ [][(Update(raw') /\ step' = "debounce") =>
            \A f \in Fields :
                history'[f] =
                    IF Len(history[f]) = debounce_frames
                    THEN SubSeq(history[f], 2, Len(history[f])) \o <<raw'[f]>>
                    ELSE history[f] \o <<raw'[f]>>]_vars

C14_Witness ==
    /\ step = "debounce"
    /\ debounce_frames = MaxDebounce
    /\ history.expression = <<NONE, "smile">>
    /\ streak.expression = 1
    /\ run.proximity = debounce_frames /\ streak.proximity > debounce_frames

\* Where main stands with respect to send_all: not called before the loop
\* is entered, no camera.read() or update before it, called once with the
\* three discrete fields NONE on entering the loop, and never again.
SendAllSchedule ==
    \/ pc = "build" /\ send_all_calls = 0
    \/ pc = "start" /\ send_all_calls = 0 /\ cam = NoRead /\ step = "init"
    \/ /\ pc = "loop" /\ send_all_calls = 1
       /\ (cam = NoRead /\ step = "init") =>
              sent = <<<<"/person/proximity", NONE>>, <<"/person/expression", NONE>>,
                       <<"/person/gesture", NONE>>>>

\* C15: main, run as written (with the keywords of main.py:128-133), calls
\* send_all exactly once, after the camera is started and before the first
\* camera.read() and update, with the three discrete fields NONE.
C15_SendAllOnce == peekaboo_kwargs = PeekabooInitKwargs => SendAllSchedule

\* C16: until its first update call a StateManager (constructed at clock 0)
\* is not idle, has confirmed distance, expression and gesture NONE, three
\* empty history windows, and the construction time as idle timestamp.
C16_InitialState ==
    step = "init" =>
        /\ idle = FALSE
        /\ \A f \in Fields : confirmed[f] = NONE /\ history[f] = <<>>
        /\ last_face_seen_at = 0

C16_Witness ==
    /\ step = "init"
    /\ clock > 0
    /\ debounce_frames = MaxDebounce
    /\ DOMAIN history = Fields /\ DOMAIN confirmed = Fields

\* C17: after the call that enters idle every history window is empty, the
\* confirmed state is NONE throughout and the returned list is exactly the
\* resets to NONE of the fields that were not NONE: the raw values of the
\* call are neither appended nor confirmed.
C17_ResetIgnoresRaw ==
    step = "reset" =>
        /\ was_idle = FALSE /\ idle = TRUE
        /\ \A f \in Fields : history[f] = <<>> /\ confirmed[f] = NONE
        /\ changes = NeededToNone(prev_confirmed)
        /\ \A i \in 1..Len(changes) : changes[i][2] = NONE

C17_Witness ==
    /\ step = "reset"
    /\ debounce_frames = MaxDebounce
    /\ raw.expression = "smile" /\ streak.expression >= debounce_frames
    /\ prev_confirmed.expression = NONE
    /\ prev_confirmed.proximity = "close"
    /\ changes = <<<<"proximity", NONE>>>>

\* C18: an update call made while idle with raw distance NONE leaves the
\* confirmed state, the three history windows, the idle flag and the idle
\* timestamp as they were.
C18_IdleFrozen ==
    [][(Update(raw') /\ idle /\ raw'.proximity = NONE)
       => UNCHANGED <<confirmed, history, idle, last_face_seen_at>>]_vars

C18_Witness ==
    /\ step = "idle"
    /\ was_idle /\ idle
    /\ raw.proximity = NONE /\ raw.expression = "smile"
    /\ clock > last_face_seen_at + idle_timeout_seconds
    /\ \A f \in Fields : history[f] = <<>> /\ confirmed[f] = NONE

\* Position of a field in the order distance, expression, gesture.
Rank(f) ==
    CASE f = "proximity" -> 1
      [] f = "expression" -> 2
      [] f = "gesture" -> 3

\* C19: the list returned by update names debounced fields only, in the
\* order distance, expression, gesture, each at most once (so at most three
\* entries), whether it comes from the debounce step or from an idle reset.
C19_FieldOrder ==
    /\ Len(changes) <= 3
    /\ \A i \in 1..Len(changes) : changes[i][1] \in {"proximity", "expression", "gesture"}
    /\ \A i, j \in 1..Len(changes) :
          i < j => Rank(changes[i][1]) < Rank(changes[j][1])

C19_Witness ==
    /\ step = "reset"
    /\ prev_confirmed = [proximity |-> "close", expression |-> "smile", gesture |-> "peekaboo"]
    /\ changes = <<<<"proximity", NONE>>, <<"expression", NONE>>, <<"gesture", NONE>>>>

\* C20: when from some point on every update call has raw distance NONE,
\* while calls keep coming and the clock keeps advancing, the manager ends
\* up idle with every confirmed field NONE, and stays so.
C20_EventuallyIdle ==
    <>[](step # "init" /\ raw.proximity = NONE) => <>[](idle /\ confirmed = AllNone)

C20_Witness ==
    /\ step = "reset" /\ idle
    /\ raw.proximity = NONE
    /\ prev_confirmed.gesture = "peekaboo" /\ prev_confirmed.proximity = "close"
    /\ confirmed = AllNone
    /\ clock - last_face_seen_at >= idle_timeout_seconds

\* C21: the idle flag is raised only by an update call, and only by one made
\* idle_timeout_seconds or more after the idle timestamp; the passage of time
\* alone changes nothing in the manager; and a call with raw distance NONE
\* made at or after the timeout while not idle does raise the flag.
C21_LazyIdle ==
    [][/\ (~idle /\ idle') =>
             /\ Update(raw')
             /\ clock - last_face_seen_at >= idle_timeout_seconds
             /\ last_face_seen_at' = last_face_seen_at
       /\ (clock' # clock) =>
             UNCHANGED <<confirmed, history, idle, last_face_seen_at, changes>>
       /\ (/\ Update(raw') /\ ~idle /\ raw'.proximity = NONE
           /\ clock - last_face_seen_at >= idle_timeout_seconds) => idle']_vars

C21_Witness ==
    /\ step = "reset" /\ idle /\ ~was_idle
    /\ last_face_seen_at > 0
    /\ clock - last_face_seen_at = idle_timeout_seconds
    /\ streak.proximity >= 2

\* C22: when a perception backend raises on a captured frame the iteration
\* still goes on: the loop is not left, the frame is merged and handed to
\* update, and the field of the failing backend has the value reported on
\* the previous frame.
C22_BackendFailureHeld ==
    [][(pc = "loop" /\ clock' = clock /\ failure' # "none")
       => (/\ pc' = "loop"
           /\ Update(raw')
           /\ detection' = Suppress(build_detection_result(raw_outputs'))
           /\ failure' = "deepface" => raw_outputs'[2].expression = last_result)]_vars

\* C23: every continuous value sent for a captured frame, and every
\* continuous value a detector produced for it, is the sentinel of its field
\* or lies in 0..1000 (thousandths of the unit range).
C23_UnitRange ==
    (pc = "loop" /\ read_ok) =>
        \A f \in ContinuousFields :
            /\ \A k \in 1..Len(SentTo(f)) :
                  SentTo(f)[k][2] = Sentinel(f) \/ SentTo(f)[k][2] \in 0..1000
            /\ \A i \in 1..Len(raw_outputs) :
                  f \in DOMAIN raw_outputs[i] =>
                      (raw_outputs[i][f] = Sentinel(f) \/ raw_outputs[i][f] \in 0..1000)

\* C24: the peekaboo detector reports PEEKABOO on a frame exactly when a face
\* was detected on an earlier frame and the face has been absent on the last
\* face_lost_frames frames at least, the current one included; a frame with a
\* face restarts the absence count and reports NONE, and nothing is reported
\* before the first face.
C24_PeekabooIff ==
    (pc = "loop" /\ raw_outputs # <<>>) =>
        /\ raw_outputs[3].gesture = "peekaboo"
              <=> (ever_face /\ absent_run >= FaceLostFrames)
        /\ absent_run = 0 =>
              (frames_without_face = 0 /\ raw_outputs[3].gesture = NONE)
        /\ ~ever_face => raw_outputs[3].gesture = NONE

C24_Witness ==
    /\ pc = "loop" /\ read_ok
    /\ raw_outputs[3].gesture = "peekaboo"
    /\ ever_face /\ absent_run = FaceLostFrames
    /\ frames_without_face = FaceLostFrames

\* C25: a call of the expression detector whose call count is not a multiple
\* of analyze_every_n_frames returns the stored last result and leaves it
\* unchanged; after a call whose count is a multiple, the stored result is the
\* value returned; before the first analysed call the stored result is NONE.
C25_AnalyseEveryN ==
    [][/\ (frame_count' = frame_count + 1 /\ frame_count' % AnalyzeEveryN # 0) =>
             /\ raw_outputs'[2].expression = last_result
             /\ last_result' = last_result
       /\ (frame_count' = frame_count + 1 /\ frame_count' % AnalyzeEveryN = 0) =>
             last_result' = raw_outputs'[2].expression
       /\ frame_count' < AnalyzeEveryN => last_result' = NONE]_vars

C25_Witness ==
    /\ pc = "loop" /\ read_ok
    /\ frame_count = AnalyzeEveryN + 1
    /\ last_result = "smile"
    /\ raw_outputs[2].expression = "smile"

\* The positions of main after the frame loop has been left.
Exits == {"quit", "interrupted", "failed"}

\* C26: whichever way the frame loop is left (Q key, KeyboardInterrupt, an
\* exception raised in an iteration), the camera is stopped and release() has
\* been called exactly once on each detector of the pipeline; until then the
\* camera is on and nothing is released; afterwards no frame is read and the
\* state manager is not updated.
C26_Shutdown ==
    [][/\ pc' \in Exits =>
             /\ camera_on' = "stopped"
             /\ \A d \in 1..Len(Detectors) : released'[d] = 1
       /\ pc' = "loop" =>
             /\ camera_on' = "on"
             /\ \A d \in 1..Len(Detectors) : released'[d] = 0
       /\ pc \in Exits =>
             UNCHANGED <<pc, cam, read_ok, detvars, raw_outputs, detection, sent,
                         confirmed, history, idle, last_face_seen_at, raw, changes,
                         exitvars>>]_vars

C26_Witness ==
    /\ pc = "failed" /\ failure = "mediapipe"
    /\ frame_count > 0
    /\ camera_on = "stopped"
    /\ \A d \in 1..Len(Detectors) : released[d] = 1

\* C27: between update calls, an idle machine has NONE confirmed for
\* distance, expression and gesture and its three history windows are empty.
C27_IdleShape ==
    idle => /\ confirmed = AllNone
            /\ \A f \in Fields : history[f] = <<>>

C27_Witness ==
    /\ idle /\ step = "reset"
    /\ Len(changes) = Cardinality(Fields)
    /\ \A f \in Fields : prev_confirmed[f] # NONE /\ streak[f] = 1

\* C28: a debounce confirmation of a field comes debounce_frames update
\* calls at least after the previous debounce confirmation of that field,
\* whether or not an idle reset happened in between.
C28_ConfirmationGap ==
    [][\A f \in Fields :
          (step' = "debounce" /\ confirmed'[f] # confirmed[f]) =>
              (since_confirm[f] = -1 \/ since_confirm[f] + 1 >= debounce_frames)]_vars

\* A confirmation, an idle reset at the next call, and the earliest
\* confirmation after it.
C28_Witness ==
    /\ step = "debounce"
    /\ ~active_all
    /\ Len(log) = 2 * debounce_frames + 1
    /\ \A i \in 1..debounce_frames : log[i] = "close"
    /\ log[debounce_frames + 1] = NONE
    /\ confirmed.proximity = "close"
    /\ since_confirm.proximity = 0

\* C29: the update call that finds the machine idle and a face in its raw
\* frame leaves idle and takes the debounce step, after which each history
\* window holds the raw value of that call and nothing else; a debounce step
\* changes a field's confirmed value only on a full window, so after a reset
\* debounce_frames calls are needed (with debounce_frames = 1 the exiting
\* call itself).
C29_ExitRunsDebounce ==
    [][/\ (clock' = clock /\ idle /\ raw'.proximity # NONE) =>
             /\ step' = "debounce" /\ ~idle'
             /\ \A f \in Fields : history'[f] = <<raw'[f]>>
       /\ \A f \in Fields :
             (step' = "debounce" /\ confirmed'[f] # confirmed[f]) =>
                 /\ Len(history'[f]) = debounce_frames
                 /\ run'[f] = debounce_frames]_vars

C29_Witness ==
    /\ debounce_frames = 1
    /\ was_idle /\ ~idle /\ step = "debounce"
    /\ changes # <<>>
    /\ \A f \in Fields : history[f] = <<raw[f]>>

\* C30: a receiver that gets every message in order, starting with those of
\* send_all, holds after every iteration of the frame loop the confirmed
\* distance, expression and gesture of the state manager, across idle resets
\* and idle exits too.
C30_ConsumerInSync ==
    pc = "loop" => consumer = confirmed

C30_Witness ==
    /\ pc = "loop" /\ read_ok
    /\ step = "reset" /\ idle
    /\ prev_confirmed.proximity = "close"
    /\ consumer = AllNone
    /\ \E k \in 1..Len(sent) : sent[k] = <<OSC_ADDRESSES.proximity, NONE>>

\* C31: the three history windows always have the same length, and each
\* holds exactly the raw values of the latest debounce-step calls since the
\* last idle reset (debounce_frames of them at most), in call order: no such
\* call is missing and no idle or idle-reset call has an entry.
C31_WindowContents ==
    /\ \A f, g \in Fields : Len(history[f]) = Len(history[g])
    /\ \A f \in Fields : history[f] = window[f]

C31_Witness ==
    /\ step = "debounce" /\ ~active_all
    /\ debounce_frames = MaxDebounce
    /\ \A f \in Fields : Len(history[f]) = debounce_frames
    /\ history.proximity[1] # history.proximity[debounce_frames]
    /\ history.gesture[debounce_frames] = NONE

\* The entries of a returned list for the distance and the expression.
NotGesture(chg) == SelectSeq(chg, LAMBDA e : e[1] # "gesture")

\* C32: a run and the run fed the same distance and expression at the same
\* call times with another gesture sequence agree, after every call, on the
\* idle flag, on the confirmed distance and expression, and on the distance
\* and expression entries of the returned list.  Every run is compared with
\* the run of the same distances and expressions whose gesture is NONE
\* throughout; two runs that agree with the same third agree with each other.
C32_GestureIndependence ==
    /\ twin.idle = idle
    /\ twin.last_face_seen_at = last_face_seen_at
    /\ \A f \in Fields \ {"gesture"} :
          /\ twin.confirmed[f] = confirmed[f]
          /\ twin.history[f] = history[f]
    /\ NotGesture(twin.changes) = NotGesture(changes)

C32_Witness ==
    /\ step = "reset" /\ idle /\ twin.idle
    /\ prev_confirmed.gesture = "peekaboo"
    /\ \E k \in 1..Len(changes) : changes[k][1] = "gesture"
    /\ twin.changes # <<>>
    /\ twin.changes = NotGesture(changes)

\* C33: on every frame whose merged gesture is PEEKABOO the merged distance
\* is NONE and update leaves the idle timestamp alone; if the idle timeout
\* has been reached since the last frame with a face, the machine is idle
\* after that update, and when it was still active the update is the idle
\* reset, returning gesture NONE exactly when PEEKABOO was confirmed, with
\* the raw gesture of the call still PEEKABOO.
C33_PeekabooIdles ==
    [][(frame_count' = frame_count + 1 /\ detection'.gesture = "peekaboo") =>
          /\ detection'.proximity = NONE
          /\ raw'.gesture = "peekaboo"
          /\ last_face_seen_at' = last_face_seen_at
          /\ (clock - last_face_seen_at >= idle_timeout_seconds) =>
                /\ idle'
                /\ ~idle =>
                      /\ step' = "reset"
                      /\ confirmed.gesture = "peekaboo"
                            <=> \E k \in 1..Len(changes') :
                                   changes'[k] = <<"gesture", NONE>>]_vars

C33_Witness ==
    /\ pc = "loop" /\ read_ok
    /\ step = "reset" /\ idle
    /\ raw.gesture = "peekaboo" /\ detection.gesture = "peekaboo"
    /\ prev_confirmed.gesture = "peekaboo"
    /\ \E k \in 1..Len(changes) : changes[k] = <<"gesture", NONE>>
    /\ clock - last_face_seen_at >= idle_timeout_seconds

====
